---------------------------- MODULE Spec2Model ----------------------------
(***************************************************************************)
(* A model of the Chatbot session object of src/chatbot.py and of the      *)
(* streaming loop of src/main.py that drives it.                           *)
(*                                                                         *)
(* Text is a sequence of symbols.  A symbol is one character ("g", " ",    *)
(* "\n") or one fixed piece of text the code looks for as a whole          *)
(* ("## User", "**System: Switched to model:", "---").  No concatenation   *)
(* of the other symbols of the model spells such a piece, so startswith,   *)
(* split and the substring test are computed on symbols.                   *)
(***************************************************************************)
EXTENDS Integers, Sequences, FiniteSets, TLC

(***************************************************************************)
(* Bounds of the model.                                                    *)
(***************************************************************************)
\* entries of full_conversation_history
MaxLog == 4
\* chunks one completion stream delivers
MaxChunks == 2
\* rounds of the loop of main_loop that end in a reported failure
MaxRounds == 30
\* entries of full_conversation_history in the specification with files;
\* the specification with settings allows one more
MaxStoreLog == 2

(***************************************************************************)
(* Text.                                                                   *)
(***************************************************************************)
NL == "\n"
SP == " "
\* Python's None, and str(None)
None == <<"None">>
NoneText == <<"N", "o", "n", "e">>
Str(x) == IF x = None THEN NoneText ELSE x

RECURSIVE Concat(_)
\* ''.join(parts)
Concat(parts) ==
    IF parts = <<>> THEN <<>> ELSE Head(parts) \o Concat(Tail(parts))

Whitespace == {SP, NL, "\t"}

RECURSIVE LStrip(_)
LStrip(s) ==
    IF s # <<>> /\ Head(s) \in Whitespace THEN LStrip(Tail(s)) ELSE s

RECURSIVE RStrip(_)
RStrip(s) ==
    IF s # <<>> /\ s[Len(s)] \in Whitespace
    THEN RStrip(SubSeq(s, 1, Len(s) - 1))
    ELSE s

\* str.strip()
Strip(s) == LStrip(RStrip(s))

RECURSIVE RStripNL(_)
\* str.rstrip('\n')
RStripNL(s) ==
    IF s # <<>> /\ s[Len(s)] = NL
    THEN RStripNL(SubSeq(s, 1, Len(s) - 1))
    ELSE s

\* str.startswith(p)
StartsWith(s, p) == Len(s) >= Len(p) /\ SubSeq(s, 1, Len(p)) = p

\* str.endswith(p)
EndsWith(s, p) ==
    Len(s) >= Len(p) /\ SubSeq(s, Len(s) - Len(p) + 1, Len(s)) = p

\* the first index at which p occurs in s, 0 when it does not (p non-empty)
Find(s, p) ==
    LET at == {i \in 1..(Len(s) - Len(p) + 1) : SubSeq(s, i, i + Len(p) - 1) = p}
    IN IF at = {} THEN 0 ELSE CHOOSE i \in at : \A k \in at : i <= k

\* p in s
Contains(s, p) == p = <<>> \/ Find(s, p) # 0

\* s.split(p, 1)[0] and s.split(p, 1)[1] (the latter needs p in s)
Before(s, p) == IF Find(s, p) = 0 THEN s ELSE SubSeq(s, 1, Find(s, p) - 1)
After(s, p) == SubSeq(s, Find(s, p) + Len(p), Len(s))

RECURSIVE ReadLines(_)
\* f.readlines(): the lines of a text, each with its line end
ReadLines(s) ==
    IF s = <<>> THEN <<>>
    ELSE LET n == Find(s, <<NL>>)
         IN IF n = 0 THEN <<s>>
            ELSE <<SubSeq(s, 1, n)>> \o ReadLines(SubSeq(s, n + 1, Len(s)))

RECURSIVE JoinLines(_)
\* '\n'.join(lines)
JoinLines(lines) ==
    IF lines = <<>> THEN <<>>
    ELSE IF Len(lines) = 1 THEN lines[1]
    ELSE lines[1] \o <<NL>> \o JoinLines(Tail(lines))

UpperCase ==
    [G |-> "g", E |-> "e", M |-> "m", N |-> "n", D |-> "d", T |-> "t"]
    @@ ("Rate Limit" :> "rate limit") @@ ("Temperature" :> "temperature")
    @@ ("API Key" :> "api key") @@ ("Authentication" :> "authentication")
    @@ ("Timeout" :> "timeout") @@ ("Connection" :> "connection")
    @@ ("Not Found" :> "not found") @@ ("Invalid" :> "invalid")
\* str.lower(), symbol by symbol
LowerSym(c) == IF c \in DOMAIN UpperCase THEN UpperCase[c] ELSE c
Lower(s) == [i \in 1..Len(s) |-> LowerSym(s[i])]

DigitVal == [c \in {"0", "1", "2", "3", "4", "5", "6", "7", "8", "9"} |->
               CASE c = "0" -> 0 [] c = "1" -> 1 [] c = "2" -> 2 [] c = "3" -> 3
                 [] c = "4" -> 4 [] c = "5" -> 5 [] c = "6" -> 6 [] c = "7" -> 7
                 [] c = "8" -> 8 [] c = "9" -> 9]

\* str.isdigit()
IsDigit(s) == s # <<>> /\ \A i \in 1..Len(s) : s[i] \in DOMAIN DigitVal

RECURSIVE ParseInt(_)
\* int(s) of a string of digits
ParseInt(s) ==
    IF s = <<>> THEN 0
    ELSE 10 * ParseInt(SubSeq(s, 1, Len(s) - 1)) + DigitVal[s[Len(s)]]


(***************************************************************************)
(* The model catalog: models_config["models"], a dict in insertion order.  *)
(***************************************************************************)
N_gpt120b == <<"g", "p", "t", "1", "2", "0", "b">>
N_gemini_flash == <<"g", "e", "m", "i", "n", "i", "-", "f", "l", "a", "s", "h">>
N_gemini_pro == <<"g", "e", "m", "i", "n", "i", "-", "p", "r", "o">>

E_gpt120b ==
    [name |-> N_gpt120b, litellm_string |-> <<"groq/openai/gpt-oss-120b">>,
     provider |-> "Groq"]
E_gemini_flash ==
    [name |-> N_gemini_flash, litellm_string |-> <<"gemini/gemini-flash">>,
     provider |-> "Google"]
E_gemini_pro ==
    [name |-> N_gemini_pro, litellm_string |-> <<"gemini/gemini-pro">>,
     provider |-> "Google"]
\* a model whose friendly name is a number
N_one == <<"1">>
E_one ==
    [name |-> N_one, litellm_string |-> <<"openai/o1">>, provider |-> "OpenAI"]

\* the configurations _load_models_config may return: a models_config.json
\* with the default model and one without it
Catalogs ==
    { <<E_gpt120b, E_gemini_flash, E_gemini_pro>>,
      <<E_gemini_flash, E_gemini_pro, E_one>> }

\* list(models.keys())
Keys(models) == [i \in 1..Len(models) |-> models[i].name]

\* identifier in models
HasKey(models, identifier) ==
    \E i \in 1..Len(models) : models[i].name = identifier

\* models[identifier]
Entry(models, identifier) ==
    models[CHOOSE i \in 1..Len(models) : models[i].name = identifier]

(***************************************************************************)
(* difflib.SequenceMatcher(None, a, b).ratio(), for texts shorter than the *)
(* 200 symbols at which its junk heuristic starts.                         *)
(***************************************************************************)
RECURSIVE RunLen(_, _, _, _, _, _)
\* the length of the common run of a[i..ahi] and b[j..bhi] from i and j
RunLen(a, b, i, j, ahi, bhi) ==
    IF i <= ahi /\ j <= bhi /\ a[i] = b[j]
    THEN 1 + RunLen(a, b, i + 1, j + 1, ahi, bhi)
    ELSE 0

\* the greatest number of a non-empty set of numbers
Max(S) == CHOOSE x \in S : \A y \in S : y <= x

\* the blocks common to a[alo..ahi] and b[blo..bhi], each with its length
Blocks(a, b, alo, ahi, blo, bhi) ==
    {<<p[1], p[2], RunLen(a, b, p[1], p[2], ahi, bhi)>> :
        p \in {q \in (alo..ahi) \X (blo..bhi) : a[q[1]] = b[q[2]]}}

\* of the longest blocks the one starting earliest in a, then earliest in b
Earliest(blocks, k) ==
    CHOOSE m \in blocks :
        /\ m[3] = k
        /\ \A x \in blocks :
              x[3] = k => \/ m[1] < x[1]
                          \/ m[1] = x[1] /\ m[2] <= x[2]

BlockAt(m) == [i |-> m[1], j |-> m[2], k |-> m[3]]

\* find_longest_match
LongestMatch(a, b, alo, ahi, blo, bhi) ==
    LET blocks == Blocks(a, b, alo, ahi, blo, bhi)
    IN IF blocks = {} THEN [i |-> alo, j |-> blo, k |-> 0]
       ELSE BlockAt(Earliest(blocks, Max({m[3] : m \in blocks})))

RECURSIVE Matches(_, _, _, _, _, _)
\* get_matching_blocks: the number of matched symbols, the longest block
\* first, then the same to its left and to its right
Matches(a, b, alo, ahi, blo, bhi) ==
    IF alo > ahi \/ blo > bhi THEN 0
    ELSE LET m == LongestMatch(a, b, alo, ahi, blo, bhi)
         IN IF m.k = 0 THEN 0
            ELSE m.k + Matches(a, b, alo, m.i - 1, blo, m.j - 1)
                     + Matches(a, b, m.i + m.k, ahi, m.j + m.k, bhi)

\* ratio() = 2.0 * matches / (len(a) + len(b)), 1.0 for two empty texts,
\* as the fraction num / den
Ratio(a, b) ==
    IF Len(a) + Len(b) = 0 THEN [num |-> 1, den |-> 1]
    ELSE [num |-> 2 * Matches(a, b, 1, Len(a), 1, Len(b)),
          den |-> Len(a) + Len(b)]

\* the boost of a substring match, in tenths
SubstringBoost == 3
\* the least score kept, in tenths (exclusive)
MinScore == 4
\* the number of matches returned at most
TopMatches == 5

\* the score of one catalog name for a lower-cased query: ratio, plus 0.3
\* when the query is a substring of the name
Score(query, name) ==
    LET r == Ratio(Lower(query), Lower(name))
        boost == IF Contains(Lower(name), query) THEN SubstringBoost ELSE 0
    IN [name |-> name, num |-> 10 * r.num + boost * r.den, den |-> 10 * r.den]

\* x[1] > y[1] on two scored matches
Greater(x, y) == x.num * y.den > y.num * x.den

RECURSIVE SortDesc(_)
\* matches.sort(key=score, reverse=True): stable, equal scores keep order
SortDesc(ms) ==
    IF ms = <<>> THEN <<>>
    ELSE LET rest == SortDesc(SubSeq(ms, 1, Len(ms) - 1))
             x == ms[Len(ms)]
             \* x goes after every match that is not smaller than it
             n == Cardinality({i \in 1..Len(rest) : ~Greater(x, rest[i])})
         IN SubSeq(rest, 1, n) \o <<x>> \o SubSeq(rest, n + 1, Len(rest))

GoodMatch(m) == 10 * m.num > MinScore * m.den

RECURSIVE GoodMatches(_)
\* [m for m in matches if m[1] > 0.4]
GoodMatches(ms) ==
    IF ms = <<>> THEN <<>>
    ELSE (IF GoodMatch(Head(ms)) THEN <<Head(ms)>> ELSE <<>>)
         \o GoodMatches(Tail(ms))

\* _fuzzy_match_model without the sort of the scored matches
_fuzzy_match_model_unsorted(self, query) ==
    LET q == Lower(query)
        names == Keys(self.models_config)
        matches == [i \in 1..Len(names) |-> Score(q, names[i])]
        good_matches == GoodMatches(matches)
    IN SubSeq(good_matches, 1,
              IF Len(good_matches) < TopMatches THEN Len(good_matches)
              ELSE TopMatches)

\* Chatbot._fuzzy_match_model
_fuzzy_match_model(self, query) ==
    LET q == Lower(query)
        names == Keys(self.models_config)
        matches == [i \in 1..Len(names) |-> Score(q, names[i])]
        good_matches == GoodMatches(SortDesc(matches))
    IN SubSeq(good_matches, 1,
              IF Len(good_matches) < TopMatches THEN Len(good_matches)
              ELSE TopMatches)


(***************************************************************************)
(* The session: the Chatbot object, the conversations directory, the       *)
(* prompts file, and the one turn in flight.                               *)
(***************************************************************************)
VARIABLES
    bot,            \* the fields of the Chatbot object
    files,          \* conversations/: file name -> text, or NoFile
    prompts_file,   \* the prompts the last full write of prompts.json left
    turn            \* the generator of get_chat_response_stream, its stream,
                    \* and the loop of main_loop that consumes it

vars == <<bot, files, prompts_file, turn>>

\* a number as a parameter value, in thousandths
Num(milli) == <<"num", milli>>

\* Chatbot.__init__: default_llm_params
default_llm_params ==
    [temperature |-> Num(700), max_tokens |-> None, top_p |-> None,
     presence_penalty |-> Num(0), frequency_penalty |-> Num(0)]

\* the prompts _load_prompts returns from a prompts.json: its "prompts"
FilePrompts ==
    << [alias |-> <<"default">>, text |-> <<"You are a helpful assistant.">>],
       [alias |-> <<"direct">>, text |-> <<"You are an expert-level logical thinker.">>],
       [alias |-> <<"coder">>, text |-> <<"You are an expert programmer.">>] >>

\* what _load_prompts returns when there is no prompts.json: the built-in
\* prompts one level down, under the one key "prompts"
FallbackPrompts ==
    << [alias |-> <<"prompts">>,
        text |-> <<"{'default': ..., 'direct': ...}">>] >>

\* no prompts.json
NoPromptsFile == <<>>

\* the library and the prompts file a session may start with
PromptLibraries ==
    { [prompts |-> FilePrompts, file |-> FilePrompts],
      [prompts |-> FallbackPrompts, file |-> NoPromptsFile] }

\* alias in self.prompts
HasPrompt(prompts, alias) ==
    \E i \in 1..Len(prompts) : prompts[i].alias = alias

\* self.prompts[alias]
PromptText(prompts, alias) ==
    prompts[CHOOSE i \in 1..Len(prompts) : prompts[i].alias = alias].text

\* Chatbot.get_prompt_text: self.prompts.get(alias)
get_prompt_text(self, alias) ==
    IF HasPrompt(self.prompts, alias) THEN PromptText(self.prompts, alias)
    ELSE None

Message(role, content) == [role |-> role, content |-> content]

ModelSwitchEvent(name) ==
    [type |-> "event", event |-> "model_switch", model_friendly_name |-> name]

PromptChangeEvent(text) ==
    [type |-> "event", event |-> "system_prompt_change", new_prompt |-> text]

\* 'role' in msg
HasRole(msg) == "role" \in DOMAIN msg

RECURSIVE RoleEntries(_)
\* [msg for msg in full_conversation_history if 'role' in msg]
RoleEntries(log) ==
    IF log = <<>> THEN <<>>
    ELSE (IF HasRole(Head(log)) THEN <<Head(log)>> ELSE <<>>)
         \o RoleEntries(Tail(log))

\* switch_direct starting a new conversation as well
switch_direct_clears(self, identifier) ==
    LET model_info == Entry(self.models_config, identifier)
    IN [self |-> [self EXCEPT
                    !.active_model_name = model_info.litellm_string,
                    !.active_model_friendly = identifier,
                    !.conversation_history = <<>>,
                    !.full_conversation_history =
                        Append(@, ModelSwitchEvent(identifier))],
        status |-> "success", path |-> "direct", matches |-> <<>>]

\* the direct match of switch_model: identifier is a key of the catalog
switch_direct(self, identifier) ==
    LET model_info == Entry(self.models_config, identifier)
    IN [self |-> [self EXCEPT
                    !.active_model_name = model_info.litellm_string,
                    !.active_model_friendly = identifier,
                    !.full_conversation_history =
                        Append(@, ModelSwitchEvent(identifier))],
        status |-> "success", path |-> "direct", matches |-> <<>>]

\* switch_number counting the keys from 0
switch_number_zero_based(self, identifier) ==
    LET model_list == Keys(self.models_config)
        idx == ParseInt(identifier)
    IN IF 0 <= idx /\ idx < Len(model_list)
       THEN [switch_direct(self, model_list[idx + 1]) EXCEPT !.path = "number"]
       ELSE [self |-> self, status |-> "error", path |-> "number",
             matches |-> <<>>]

\* the numbered selection of switch_model
switch_number(self, identifier) ==
    LET model_list == Keys(self.models_config)
        idx == ParseInt(identifier) - 1
    IN IF 0 <= idx /\ idx < Len(model_list)
       THEN [switch_direct(self, model_list[idx + 1]) EXCEPT !.path = "number"]
       ELSE [self |-> self, status |-> "error", path |-> "number",
             matches |-> <<>>]

\* the fuzzy selection that takes the best of several close names
switch_fuzzy_selects_first(self, identifier) ==
    LET matches == _fuzzy_match_model(self, identifier)
    IN IF matches = <<>>
       THEN [self |-> self, status |-> "error", path |-> "fuzzy",
             matches |-> <<>>]
       ELSE [switch_direct(self, matches[1].name) EXCEPT
               !.path = "fuzzy", !.status = "multiple", !.matches = matches]

\* the fuzzy selection of switch_model
switch_fuzzy(self, identifier) ==
    LET matches == _fuzzy_match_model(self, identifier)
    IN IF matches = <<>>
       THEN [self |-> self, status |-> "error", path |-> "fuzzy",
             matches |-> <<>>]
       ELSE IF Len(matches) = 1
       THEN [switch_direct(self, matches[1].name) EXCEPT !.path = "fuzzy"]
       ELSE [self |-> self, status |-> "multiple", path |-> "fuzzy",
             matches |-> matches]

\* switch_model trying the numbered selection before the direct match
switch_model_number_first(self, identifier) ==
    IF IsDigit(identifier) THEN switch_number(self, identifier)
    ELSE IF HasKey(self.models_config, identifier)
    THEN switch_direct(self, identifier)
    ELSE switch_fuzzy(self, identifier)

\* Chatbot.switch_model
switch_model(self, identifier) ==
    IF HasKey(self.models_config, identifier)
    THEN switch_direct(self, identifier)
    ELSE IF IsDigit(identifier) THEN switch_number(self, identifier)
    ELSE switch_fuzzy(self, identifier)

\* start_new_chat resetting the sampling parameters as well
start_new_chat_resets_params(self) ==
    [self EXCEPT !.conversation_history = <<>>,
                 !.full_conversation_history = <<>>,
                 !.total_tokens_used = 0,
                 !.llm_params = default_llm_params]

\* start_new_chat forgetting the active model as well
start_new_chat_unsets_model(self) ==
    [self EXCEPT !.conversation_history = <<>>,
                 !.full_conversation_history = <<>>,
                 !.total_tokens_used = 0,
                 !.active_model_name = None,
                 !.active_model_friendly = None]

\* Chatbot.start_new_chat
start_new_chat(self) ==
    [self EXCEPT !.conversation_history = <<>>,
                 !.full_conversation_history = <<>>,
                 !.total_tokens_used = 0]

\* set_system_prompt without the new chat that ends it
set_system_prompt_keeps_chat(self, prompt_or_alias) ==
    LET prompt_text ==
            IF HasPrompt(self.prompts, prompt_or_alias)
            THEN PromptText(self.prompts, prompt_or_alias)
            ELSE prompt_or_alias
    IN [self EXCEPT
          !.system_prompt = prompt_text,
          !.full_conversation_history =
              Append(@, PromptChangeEvent(prompt_text))]

\* Chatbot.set_system_prompt
set_system_prompt(self, prompt_or_alias) ==
    LET prompt_text ==
            IF HasPrompt(self.prompts, prompt_or_alias)
            THEN PromptText(self.prompts, prompt_or_alias)
            ELSE prompt_or_alias
        recorded == [self EXCEPT
                       !.system_prompt = prompt_text,
                       !.full_conversation_history =
                           Append(@, PromptChangeEvent(prompt_text))]
    IN start_new_chat(recorded)

\* Chatbot.reset_llm_params
reset_llm_params(self) == [self EXCEPT !.llm_params = default_llm_params]

\* the loop variable chunk, of which the code reads the usage after the
\* loop; before the first round of the loop it is unbound (chunks = 0 says
\* so, and the field is not read then)
NoChunk == [content |-> <<>>, usage |-> None]

\* no generator: the interactive loop is between turns
IdleTurn ==
    [pc |-> "idle", user_prompt |-> <<>>, response_text |-> <<>>,
     chunk |-> NoChunk, emitted |-> <<>>, stream |-> "none", chunks |-> 0,
     autosave |-> "none", rounds |-> 0, request |-> None, error |-> None]

\* Chatbot.__init__ up to the two calls that end it
NewChatbot(models, prompts) ==
    [conversation_history |-> <<>>,
     full_conversation_history |-> <<>>,
     system_prompt |-> <<"You are a helpful assistant.">>,
     active_model_name |-> None,
     active_model_friendly |-> None,
     models_config |-> models,
     prompts |-> prompts,
     total_tokens_used |-> 0,
     llm_params |-> default_llm_params]

\* Chatbot.__init__: the default model and the default system prompt
Chatbot(models, prompts) ==
    set_system_prompt(switch_model(NewChatbot(models, prompts), N_gpt120b).self,
                      <<"default">>)

Init ==
    /\ \E models \in Catalogs, library \in PromptLibraries :
          /\ bot = Chatbot(models, library.prompts)
          /\ prompts_file = library.file
    /\ files = <<>>
    /\ turn = IdleTurn


(***************************************************************************)
(* One turn: get_chat_response_stream, a generator.  It runs when its      *)
(* caller asks for the next event and is suspended at every yield.         *)
(***************************************************************************)
ContentEvent(text) == [type |-> "content", content |-> text]
ErrorEvent(text) == [type |-> "error", content |-> text]

\* a usage record of a chunk
Usage(n) == <<"usage", n>>

\* _format_error looking for the rate limit before the API key
_format_error_rate_first(error) ==
    LET error_str == Lower(error)
        has(sym) == Contains(error_str, <<sym>>)
    IN IF has("rate limit")
       THEN <<"Rate limit exceeded. Please wait a moment and try again.">>
       ELSE IF has("api key") \/ has("authentication")
       THEN <<"API key is missing or invalid. Check your .env file.">>
       ELSE IF has("timeout") \/ has("connection")
       THEN <<"Connection timeout. Check your internet connection.">>
       ELSE IF has("not found") \/ has("404")
       THEN <<"Model not found. The model may have been deprecated.">>
       ELSE error

\* Chatbot._format_error
_format_error(error) ==
    LET error_str == Lower(error)
        has(sym) == Contains(error_str, <<sym>>)
    IN IF has("api key") \/ has("authentication")
       THEN <<"API key is missing or invalid. Check your .env file.">>
       ELSE IF has("rate limit")
       THEN <<"Rate limit exceeded. Please wait a moment and try again.">>
       ELSE IF has("timeout") \/ has("connection")
       THEN <<"Connection timeout. Check your internet connection.">>
       ELSE IF has("not found") \/ has("404")
       THEN <<"Model not found. The model may have been deprecated.">>
       ELSE error

\* the UnboundLocalError of reading chunk after a loop that never ran
UnboundChunk == <<"local variable 'chunk' referenced before assignment">>

\* the request with every stored parameter, the unset ones as well
completion_request_all_params(self, user_prompt) ==
    [model |-> self.active_model_name,
     messages |-> <<Message("system", self.system_prompt)>>
                    \o self.conversation_history
                    \o <<Message("user", user_prompt)>>,
     stream |-> TRUE,
     params |-> self.llm_params]

\* the arguments of litellm.completion: the messages built on entry and
\* the stored parameters that are not None
completion_request(self, user_prompt) ==
    [model |-> self.active_model_name,
     messages |-> <<Message("system", self.system_prompt)>>
                    \o self.conversation_history
                    \o <<Message("user", user_prompt)>>,
     stream |-> TRUE,
     params |-> [k \in {n \in DOMAIN self.llm_params : self.llm_params[n] # None}
                   |-> self.llm_params[k]]]

\* stream_call without the check of the active model
stream_call_unchecked(self, t, user_prompt) ==
    [t EXCEPT !.pc = "streaming", !.user_prompt = user_prompt, !.stream = "open"]

\* the call of the generator up to its first suspension: the fail-fast
\* check, then the request and the call of the completion capability
stream_call(self, t, user_prompt) ==
    IF self.active_model_name = None \/ self.active_model_name = <<>>
    THEN [t EXCEPT !.pc = "done", !.user_prompt = user_prompt,
                   !.emitted = <<ErrorEvent(<<"No model is currently active.">>)>>]
    ELSE [t EXCEPT !.pc = "streaming", !.user_prompt = user_prompt,
                   !.stream = "open",
                   !.request = completion_request(self, user_prompt)]

\* the round of the for loop that puts the new event before the others
stream_chunk_prepends(t, chunk) ==
    IF chunk.content # <<>>
    THEN [t EXCEPT !.chunk = chunk, !.chunks = @ + 1,
                   !.response_text = @ \o chunk.content,
                   !.emitted = <<ContentEvent(chunk.content)>> \o @]
    ELSE [t EXCEPT !.chunk = chunk, !.chunks = @ + 1]

\* one round of the for loop: a chunk arrives
stream_chunk(t, chunk) ==
    IF chunk.content # <<>>
    THEN [t EXCEPT !.chunk = chunk, !.chunks = @ + 1,
                   !.response_text = @ \o chunk.content,
                   !.emitted = Append(@, ContentEvent(chunk.content))]
    ELSE [t EXCEPT !.chunk = chunk, !.chunks = @ + 1]

\* the except branch: the completion call or the stream raised e
stream_except(t, e) ==
    [t EXCEPT !.pc = "done", !.error = e,
              !.emitted = Append(@, ErrorEvent(_format_error(e)))]

\* after the loop: the token usage of the last chunk
stream_usage(self, t) ==
    IF t.chunk.usage # None
    THEN [self EXCEPT !.total_tokens_used = @ + t.chunk.usage[2]]
    ELSE self

\* after the loop: the two messages of the turn
stream_record(self, t) ==
    LET user_message == Message("user", t.user_prompt)
        assistant_message == Message("assistant", t.response_text)
    IN [self EXCEPT
          !.conversation_history = @ \o <<user_message, assistant_message>>,
          !.full_conversation_history = @ \o <<user_message, assistant_message>>]

UserPrompts == { <<"h", "i">>, <<"h", "i", NL, "**System: Switched to model:">> }
Deltas == { <<>>, <<"o", "k">> }
Usages == {None, Usage(3)}
ProviderErrors == { <<"boom">>, <<"Rate Limit", SP, "hit">> }

\* the caller starts a turn
TurnCallOf(user_prompts, maxLog) ==
    /\ turn.pc = "idle"
    /\ Len(bot.full_conversation_history) + 2 <= maxLog
    /\ \E user_prompt \in user_prompts :
          turn' = stream_call(bot, turn, user_prompt)
    /\ UNCHANGED <<bot, files, prompts_file>>

TurnCall == TurnCallOf(UserPrompts, MaxLog)

\* the stream delivers a chunk
TurnChunkOf(deltas, usages) ==
    /\ turn.pc = "streaming"
    /\ turn.chunks < MaxChunks
    /\ \E content \in deltas, usage \in usages :
          turn' = stream_chunk(turn, [content |-> content, usage |-> usage])
    /\ UNCHANGED <<bot, files, prompts_file>>

TurnChunk == TurnChunkOf(Deltas, Usages)

\* TurnRaise recording the user message and the partial answer
TurnRaise_records_partial ==
    /\ turn.pc = "streaming"
    /\ \E e \in ProviderErrors :
          turn' = [stream_except(turn, e) EXCEPT !.stream = "raised"]
    /\ bot' = stream_record(bot, turn)
    /\ UNCHANGED <<files, prompts_file>>

\* the completion call or the stream raises a provider error
TurnRaise ==
    /\ turn.pc = "streaming"
    /\ \E e \in ProviderErrors :
          turn' = [stream_except(turn, e) EXCEPT !.stream = "raised"]
    /\ UNCHANGED <<bot, files, prompts_file>>

\* the stream ends
TurnExhaust ==
    /\ turn.pc = "streaming"
    /\ IF turn.chunks = 0
       THEN /\ turn' = [stream_except(turn, UnboundChunk) EXCEPT
                          !.stream = "exhausted"]
            /\ bot' = bot
       ELSE /\ turn' = [turn EXCEPT !.pc = "done", !.stream = "exhausted"]
            /\ bot' = stream_record(stream_usage(bot, turn), turn)
    /\ UNCHANGED <<files, prompts_file>>

\* the caller's loop over the events ends
TurnReturn ==
    /\ turn.pc = "done"
    /\ turn' = IdleTurn
    /\ UNCHANGED <<bot, files, prompts_file>>

(***************************************************************************)
(* The commands between turns.                                             *)
(***************************************************************************)
Identifiers ==
    { N_gpt120b, N_gemini_pro, <<"1">>, <<"2">>, <<"0">>,
      <<"f", "l", "a", "s", "h">>, <<"G", "E", "M">>, <<"z">> }

SwitchModelOf(identifiers, maxLog) ==
    /\ turn.pc = "idle"
    /\ Len(bot.full_conversation_history) < maxLog
    /\ \E identifier \in identifiers :
          bot' = switch_model(bot, identifier).self
    /\ UNCHANGED <<files, prompts_file, turn>>

SwitchModel == SwitchModelOf(Identifiers, MaxLog)

PromptArgs ==
    { <<"direct">>, <<"idea">>, <<"b", "e", SP, "b", "r", "i", "e", "f">> }

SetSystemPromptOf(args) ==
    /\ turn.pc = "idle"
    /\ \E arg \in args : bot' = set_system_prompt(bot, arg)
    /\ UNCHANGED <<files, prompts_file, turn>>

SetSystemPrompt == SetSystemPromptOf(PromptArgs)

StartNewChat ==
    /\ turn.pc = "idle"
    /\ bot' = start_new_chat(bot)
    /\ UNCHANGED <<files, prompts_file, turn>>

(***************************************************************************)
(* Sampling parameters: set_llm_param.  float() and int() are modelled on  *)
(* the texts [ws][sign]digits[.digits][ws], and float() also on nan and    *)
(* inf; a value is kept in thousandths.                                    *)
(***************************************************************************)
NaN == <<"nan">>
Inf == <<"inf">>
ParseError == <<"ValueError">>

IsDigits(s) == IsDigit(s)

RECURSIVE Fraction(_, _)
\* the thousandths the digits after the point stand for
Fraction(s, unit) ==
    IF s = <<>> \/ unit = 0 THEN 0
    ELSE DigitVal[Head(s)] * unit + Fraction(Tail(s), unit \div 10)

\* a text without sign as a number
Unsigned(s, isFloat) ==
    LET dot == Find(s, <<".">>)
    IN IF IsDigits(s) THEN Num(1000 * ParseInt(s))
       ELSE IF isFloat /\ dot > 1 /\ IsDigits(SubSeq(s, 1, dot - 1))
               /\ (dot = Len(s) \/ IsDigits(SubSeq(s, dot + 1, Len(s))))
       THEN Num(1000 * ParseInt(SubSeq(s, 1, dot - 1))
                + Fraction(SubSeq(s, dot + 1, Len(s)), 100))
       ELSE IF isFloat /\ Lower(s) = <<"n", "a", "n">> THEN NaN
       ELSE IF isFloat /\ Lower(s) = <<"i", "n", "f">> THEN Inf
       ELSE ParseError

Negate(v) ==
    IF v = ParseError \/ v = NaN THEN v
    ELSE IF v = Inf THEN <<"-inf">>
    ELSE Num(0 - v[2])

\* float(value_str) when isFloat, int(value_str) otherwise
ParseNumber(value_str, isFloat) ==
    LET s == Strip(value_str)
    IN IF s # <<>> /\ Head(s) = "-" THEN Negate(Unsigned(Tail(s), isFloat))
       ELSE IF s # <<>> /\ Head(s) = "+" THEN Unsigned(Tail(s), isFloat)
       ELSE Unsigned(s, isFloat)

\* value < bound and value > bound, as Python compares floats
Below(v, bound) == v = <<"-inf">> \/ (v[1] = "num" /\ v[2] < bound)
Above(v, bound) == v = Inf \/ (v[1] = "num" /\ v[2] > bound)

\* the validation rules, the range in thousandths (None: no bound)
validators ==
    [temperature |-> [isFloat |-> TRUE, min |-> Num(0), max |-> Num(2000)],
     max_tokens |-> [isFloat |-> FALSE, min |-> Num(1000), max |-> None],
     top_p |-> [isFloat |-> TRUE, min |-> Num(0), max |-> Num(1000)],
     presence_penalty |-> [isFloat |-> TRUE, min |-> Num(0 - 2000), max |-> Num(2000)],
     frequency_penalty |-> [isFloat |-> TRUE, min |-> Num(0 - 2000), max |-> Num(2000)]]

\* set_llm_param whose "none" and "default" reset every parameter
set_llm_param_resets_all(self, param_name_raw, value_str) ==
    LET param_name == Lower(param_name_raw)
        name == param_name[1]
        validator == validators[name]
        value == ParseNumber(value_str, validator.isFloat)
    IN IF Len(param_name) # 1 \/ name \notin DOMAIN default_llm_params
       THEN [self |-> self, status |-> "error", why |-> "unknown"]
       ELSE IF Lower(value_str) \in {<<"n", "o", "n", "e">>,
                                     <<"d", "e", "f", "a", "u", "l", "t">>}
       THEN [self |-> [self EXCEPT !.llm_params = default_llm_params],
             status |-> "success", why |-> "reset"]
       ELSE IF value = ParseError
       THEN [self |-> self, status |-> "error", why |-> "type"]
       ELSE IF validator.min # None /\ Below(value, validator.min[2])
       THEN [self |-> self, status |-> "error", why |-> "min"]
       ELSE IF validator.max # None /\ Above(value, validator.max[2])
       THEN [self |-> self, status |-> "error", why |-> "max"]
       ELSE [self |-> [self EXCEPT !.llm_params[name] = value],
             status |-> "success", why |-> "set"]

\* Chatbot.set_llm_param; a parameter name is one symbol
set_llm_param(self, param_name_raw, value_str) ==
    LET param_name == Lower(param_name_raw)
        name == param_name[1]
        validator == validators[name]
        value == ParseNumber(value_str, validator.isFloat)
    IN IF Len(param_name) # 1 \/ name \notin DOMAIN default_llm_params
       THEN [self |-> self, status |-> "error", why |-> "unknown"]
       ELSE IF Lower(value_str) \in {<<"n", "o", "n", "e">>,
                                     <<"d", "e", "f", "a", "u", "l", "t">>}
       THEN [self |-> [self EXCEPT !.llm_params[name] = default_llm_params[name]],
             status |-> "success", why |-> "reset"]
       ELSE IF value = ParseError
       THEN [self |-> self, status |-> "error", why |-> "type"]
       ELSE IF validator.min # None /\ Below(value, validator.min[2])
       THEN [self |-> self, status |-> "error", why |-> "min"]
       ELSE IF validator.max # None /\ Above(value, validator.max[2])
       THEN [self |-> self, status |-> "error", why |-> "max"]
       ELSE [self |-> [self EXCEPT !.llm_params[name] = value],
             status |-> "success", why |-> "set"]

ParamNames == { <<"Temperature">>, <<"max_tokens">>, <<"speed">> }
ParamValues ==
    { <<"0", ".", "9">>, <<"3", ".", "5">>, <<"N", "o", "n", "e">>, <<"z">> }

SetLlmParamOf(names, values) ==
    /\ turn.pc = "idle"
    /\ \E param_name \in names, value_str \in values :
          bot' = set_llm_param(bot, param_name, value_str).self
    /\ UNCHANGED <<files, prompts_file, turn>>

SetLlmParam == SetLlmParamOf(ParamNames, ParamValues)

\* every parameter name, one in another letter case, and an unknown one
AllParamNames ==
    { <<"Temperature">>, <<"max_tokens">>, <<"top_p">>,
      <<"presence_penalty">>, <<"frequency_penalty">>, <<"speed">> }

\* raw values: numbers inside and outside the ranges, the two words that
\* reset, a text that is no number, and the texts float() reads as numbers
\* that are no quantity
AllParamValues ==
    { <<"0", ".", "9">>, <<"3", ".", "5">>, <<"2">>, <<"5">>, <<"0">>,
      <<"-", "1">>, <<"-", "3">>, <<"N", "o", "n", "e">>,
      <<"D", "e", "f", "a", "u", "l", "t">>, <<"z">>, <<>>,
      <<"n", "a", "n">>, <<"i", "n", "f">>, <<"-", "i", "n", "f">> }

SetLlmParamAll == SetLlmParamOf(AllParamNames, AllParamValues)

ResetLlmParams ==
    /\ turn.pc = "idle"
    /\ bot' = reset_llm_params(bot)
    /\ UNCHANGED <<files, prompts_file, turn>>

(***************************************************************************)
(* The prompt library: a dict in insertion order, saved to prompts.json.   *)
(***************************************************************************)
ProtectedAliases == { <<"default">>, <<"direct">>, <<"coder">> }

\* del prompts[alias]
WithoutPrompt(prompts, alias) ==
    LET keep == {i \in 1..Len(prompts) : prompts[i].alias # alias}
        nth(n) == CHOOSE i \in keep : Cardinality({k \in keep : k < i}) = n - 1
    IN [n \in 1..Cardinality(keep) |-> prompts[nth(n)]]

\* prompts[alias] = text: in place when the alias is there, at the end otherwise
WithPrompt(prompts, alias, text) ==
    IF HasPrompt(prompts, alias)
    THEN [i \in 1..Len(prompts) |->
            IF prompts[i].alias = alias THEN [alias |-> alias, text |-> text]
            ELSE prompts[i]]
    ELSE Append(prompts, [alias |-> alias, text |-> text])

\* Chatbot.add_prompt; saved says whether _save_prompts could write the file
add_prompt(self, file, alias, text, saved) ==
    IF alias = <<>> \/ text = <<>>
    THEN [self |-> self, file |-> file, status |-> "error", why |-> "empty"]
    ELSE IF Contains(alias, <<SP>>)
    THEN [self |-> self, file |-> file, status |-> "error", why |-> "space"]
    ELSE IF HasPrompt(self.prompts, alias)
    THEN [self |-> self, file |-> file, status |-> "warning", why |-> "exists"]
    ELSE LET added == WithPrompt(self.prompts, alias, text)
         IN IF saved
            THEN [self |-> [self EXCEPT !.prompts = added], file |-> added,
                  status |-> "success", why |-> "saved"]
            ELSE [self |-> [self EXCEPT !.prompts = WithoutPrompt(added, alias)],
                  file |-> file, status |-> "error", why |-> "not saved"]

\* remove_prompt that leaves the alias removed when the file is not written
remove_prompt_no_rollback(self, file, alias, saved) ==
    IF ~HasPrompt(self.prompts, alias)
    THEN [self |-> self, file |-> file, status |-> "error", why |-> "not found"]
    ELSE IF alias \in ProtectedAliases
    THEN [self |-> self, file |-> file, status |-> "error", why |-> "protected"]
    ELSE LET removed == WithoutPrompt(self.prompts, alias)
         IN IF saved
            THEN [self |-> [self EXCEPT !.prompts = removed], file |-> removed,
                  status |-> "success", why |-> "removed"]
            ELSE [self |-> [self EXCEPT !.prompts = removed],
                  file |-> file, status |-> "error", why |-> "not saved"]

\* remove_prompt without the test of the protected aliases
remove_prompt_unprotected(self, file, alias, saved) ==
    IF ~HasPrompt(self.prompts, alias)
    THEN [self |-> self, file |-> file, status |-> "error", why |-> "not found"]
    ELSE LET removed_text == PromptText(self.prompts, alias)
             removed == WithoutPrompt(self.prompts, alias)
         IN IF saved
            THEN [self |-> [self EXCEPT !.prompts = removed], file |-> removed,
                  status |-> "success", why |-> "removed"]
            ELSE [self |-> [self EXCEPT
                              !.prompts = WithPrompt(removed, alias, removed_text)],
                  file |-> file, status |-> "error", why |-> "not saved"]

\* Chatbot.remove_prompt
remove_prompt(self, file, alias, saved) ==
    IF ~HasPrompt(self.prompts, alias)
    THEN [self |-> self, file |-> file, status |-> "error", why |-> "not found"]
    ELSE IF alias \in ProtectedAliases
    THEN [self |-> self, file |-> file, status |-> "error", why |-> "protected"]
    ELSE LET removed_text == PromptText(self.prompts, alias)
             removed == WithoutPrompt(self.prompts, alias)
         IN IF saved
            THEN [self |-> [self EXCEPT !.prompts = removed], file |-> removed,
                  status |-> "success", why |-> "removed"]
            ELSE [self |-> [self EXCEPT
                              !.prompts = WithPrompt(removed, alias, removed_text)],
                  file |-> file, status |-> "error", why |-> "not saved"]

Aliases == { <<"idea">>, <<"direct">>, <<"m", "y", SP, "i", "d", "e", "a">> }
PromptTexts == { <<"Generate five startup ideas">>, <<>> }

AddPromptOf(aliases, texts) ==
    /\ turn.pc = "idle"
    /\ \E alias \in aliases, text \in texts, saved \in BOOLEAN :
          LET r == add_prompt(bot, prompts_file, alias, text, saved)
          IN bot' = r.self /\ prompts_file' = r.file
    /\ UNCHANGED <<files, turn>>

AddPrompt == AddPromptOf(Aliases, PromptTexts)

RemovePromptOf(aliases) ==
    /\ turn.pc = "idle"
    /\ \E alias \in aliases, saved \in BOOLEAN :
          LET r == remove_prompt(bot, prompts_file, alias, saved)
          IN bot' = r.self /\ prompts_file' = r.file
    /\ UNCHANGED <<files, turn>>

RemovePrompt == RemovePromptOf(Aliases)

\* aliases: new ones, one of the library, protected ones, an empty one, one
\* with a space and one with a tab
AllAliases ==
    { <<"idea">>, <<"direct">>, <<"default">>, <<>>,
      <<"m", "y", SP, "i", "d", "e", "a">>, <<"m", "y", "\t", "i", "d", "e", "a">> }
AllPromptTexts ==
    { <<"Generate five startup ideas">>, <<"Answer in one line">>, <<>> }

AddPromptAll == AddPromptOf(AllAliases, AllPromptTexts)
RemovePromptAll == RemovePromptOf(AllAliases)

(***************************************************************************)
(* The conversation store: save_conversation writes a markdown text,       *)
(* load_conversation parses one.                                           *)
(***************************************************************************)
H_USER == "## User"
H_ASSISTANT == "## Assistant"
MARK == "**System: Switched to model:"
BOLD == "**"
RULE == "---"
L_DATE == "**Date:**"
L_MODEL == "**Model:**"
L_PROMPT == "**System Prompt:**"
L_TOKENS == "**Total Tokens:**"
EXT == ".md"

\* the symbols whose text starts with the two stars split('**') looks for
Stars == {BOLD, MARK, L_DATE, L_MODEL, L_PROMPT, L_TOKENS}

DigitSym == <<"0", "1", "2", "3", "4", "5", "6", "7", "8", "9">>

RECURSIVE FormatInt(_)
\* str(n) of a natural number
FormatInt(n) ==
    IF n < 10 THEN <<DigitSym[n + 1]>>
    ELSE FormatInt(n \div 10) \o <<DigitSym[(n % 10) + 1]>>

\* role.capitalize(), as the heading of the role
Heading(role) == IF role = "user" THEN H_USER ELSE H_ASSISTANT

\* the text one entry of the event log is written as
EntryText(msg) ==
    IF "type" \in DOMAIN msg /\ msg.type = "event"
    THEN IF msg.event = "model_switch"
         THEN <<MARK, SP>> \o msg.model_friendly_name \o <<BOLD, NL, NL>>
         ELSE <<>>
    ELSE <<Heading(msg.role), NL, NL>> \o msg.content \o <<NL, NL>>

RECURSIVE BodyText(_)
BodyText(log) ==
    IF log = <<>> THEN <<>> ELSE EntryText(Head(log)) \o BodyText(Tail(log))

HeaderText(self, now) ==
    <<"# Chat Conversation", NL, NL>>
    \o <<L_DATE, SP, now, NL>>
    \o <<L_MODEL, SP>> \o Str(self.active_model_friendly)
    \o <<SP, "(">> \o Str(self.active_model_name) \o <<")", NL>>
    \o <<L_PROMPT, SP>> \o self.system_prompt \o <<NL>>
    \o (IF self.total_tokens_used > 0
        THEN <<L_TOKENS, SP>> \o FormatInt(self.total_tokens_used) \o <<NL>>
        ELSE <<>>)
    \o <<NL, RULE, NL, NL>>

\* filename, with '.md' appended when it does not end with it
WithExt(filename) ==
    IF EndsWith(filename, <<EXT>>) THEN filename ELSE filename \o <<EXT>>

\* the name save_conversation gives a file when it is given none
AutoName(self, now) ==
    <<"chat_">> \o Str(self.active_model_friendly) \o <<"_", now, EXT>>

\* Chatbot.save_conversation; filename None for no name, written says
\* whether the file could be written
save_conversation(self, dir, filename, now, written) ==
    IF self.full_conversation_history = <<>>
    THEN [files |-> dir, status |-> "warning", path |-> None]
    ELSE LET name == IF filename = None \/ filename = <<>>
                     THEN AutoName(self, now)
                     ELSE WithExt(filename)
             text == HeaderText(self, now)
                     \o BodyText(self.full_conversation_history)
         IN IF written
            THEN [files |-> [f \in DOMAIN dir \cup {name} |->
                               IF f = name THEN text ELSE dir[f]],
                  status |-> "success", path |-> name]
            ELSE [files |-> dir, status |-> "error", path |-> name]

RECURSIVE HeaderLines(_)
\* the lines before the first line that is '---'
HeaderLines(lines) ==
    IF lines = <<>> \/ Strip(Head(lines)) = <<RULE>> THEN <<>>
    ELSE <<Head(lines)>> \o HeaderLines(Tail(lines))

\* the lines after the first line that is '---'
BodyLines(lines) ==
    SubSeq(lines, Len(HeaderLines(lines)) + 2, Len(lines))

RECURSIVE ParseHeader(_, _)
\* the header loop: the system prompt and the model name of the last
\* lines that give them
ParseHeader(lines, acc) ==
    IF lines = <<>> THEN acc
    ELSE LET line == Head(lines)
         IN ParseHeader(Tail(lines),
              IF StartsWith(line, <<L_PROMPT>>)
              THEN [acc EXCEPT !.prompt = Strip(After(line, <<L_PROMPT>>)),
                               !.has_prompt = TRUE]
              ELSE IF StartsWith(line, <<L_MODEL>>)
              THEN [acc EXCEPT !.model =
                        Before(Strip(After(line, <<L_MODEL>>)), <<SP>>)]
              ELSE acc)

NoRole == "None"

\* append_message of load_conversation
append_message(p) ==
    LET content == Strip(JoinLines(p.current_content))
    IN IF p.current_role # NoRole /\ p.current_content # <<>> /\ content # <<>>
       THEN Append(p.log, Message(p.current_role, content))
       ELSE p.log

\* the text before the first symbol that starts with two stars
BeforeStars(s) ==
    LET at == {i \in 1..Len(s) : s[i] \in Stars}
    IN IF at = {} THEN s
       ELSE SubSeq(s, 1, (CHOOSE i \in at : \A k \in at : i <= k) - 1)

RECURSIVE ParseBody(_, _)
\* the body loop; raised is the IndexError of a marker line without a name
ParseBody(lines, p) ==
    IF lines = <<>> \/ p.raised THEN p
    ELSE LET line == RStripNL(Head(lines))
             sep == <<MARK, SP>>
         IN ParseBody(Tail(lines),
              IF StartsWith(line, <<H_USER>>)
              THEN [p EXCEPT !.log = append_message(p),
                             !.current_role = "user", !.current_content = <<>>]
              ELSE IF StartsWith(line, <<H_ASSISTANT>>)
              THEN [p EXCEPT !.log = append_message(p),
                             !.current_role = "assistant",
                             !.current_content = <<>>]
              ELSE IF StartsWith(line, <<MARK>>)
              THEN IF Find(line, sep) = 0
                   THEN [p EXCEPT !.log = append_message(p),
                                  !.current_role = NoRole,
                                  !.current_content = <<>>, !.raised = TRUE]
                   ELSE [p EXCEPT
                           !.log = Append(append_message(p),
                                     ModelSwitchEvent(
                                       BeforeStars(Before(After(line, sep), sep)))),
                           !.current_role = NoRole, !.current_content = <<>>]
              ELSE IF p.current_role # NoRole
              THEN [p EXCEPT !.current_content = Append(@, line)]
              ELSE p)

\* load_header leaving no model active when the header's name selects none
load_header_unsets_model(self, lines) ==
    LET header == ParseHeader(HeaderLines(lines),
                    [prompt |-> <<>>, has_prompt |-> FALSE, model |-> <<>>])
        prompted == [start_new_chat(self) EXCEPT
                       !.system_prompt =
                           IF header.has_prompt THEN header.prompt ELSE @]
        r == switch_model(prompted, header.model)
    IN IF header.model # <<>>
       THEN IF r.status = "success" THEN r.self
            ELSE [prompted EXCEPT !.active_model_name = None,
                                  !.active_model_friendly = None]
       ELSE prompted

\* load_conversation, the header: the reset, then the system prompt and
\* the model the header names
load_header(self, lines) ==
    LET header == ParseHeader(HeaderLines(lines),
                    [prompt |-> <<>>, has_prompt |-> FALSE, model |-> <<>>])
        prompted == [start_new_chat(self) EXCEPT
                       !.system_prompt =
                           IF header.has_prompt THEN header.prompt ELSE @]
    IN IF header.model # <<>>
       THEN switch_model(prompted, header.model).self
       ELSE prompted

\* load_conversation, the body: the entries the body lines add to the log
load_body(self, lines) ==
    ParseBody(BodyLines(lines),
        [log |-> self.full_conversation_history, current_role |-> NoRole,
         current_content |-> <<>>, raised |-> FALSE])

\* load_conversation, the end: the last message and the rebuilt message
\* list, or the except branch when the body loop raised
load_finish(self, body) ==
    IF body.raised
    THEN [self |-> [self EXCEPT !.full_conversation_history = body.log],
          status |-> "error", why |-> "exception", count |-> 0]
    ELSE [self |-> [self EXCEPT
                      !.full_conversation_history = append_message(body),
                      !.conversation_history = RoleEntries(append_message(body))],
          status |-> "success", why |-> "loaded",
          count |-> Len(RoleEntries(append_message(body)))]

load_parsed(self, lines) == load_finish(self, load_body(self, lines))

\* load_conversation starting the new chat before it looks for the file
load_conversation_resets_first(self, dir, filename) ==
    IF WithExt(filename) \notin DOMAIN dir
    THEN [self |-> start_new_chat(self), status |-> "error",
          why |-> "not found", count |-> 0]
    ELSE load_parsed(load_header(self, ReadLines(dir[WithExt(filename)])),
                     ReadLines(dir[WithExt(filename)]))

\* Chatbot.load_conversation
load_conversation(self, dir, filename) ==
    IF WithExt(filename) \notin DOMAIN dir
    THEN [self |-> self, status |-> "error", why |-> "not found", count |-> 0]
    ELSE load_parsed(load_header(self, ReadLines(dir[WithExt(filename)])),
                     ReadLines(dir[WithExt(filename)]))

\* the clock of the date line and of the file names
Now == "20260101_120000"

SaveNames == { <<"f", "o", "o">> }
LoadNames == { <<"f", "o", "o">>, <<"f", "o", "o", EXT>>, <<"b", "a", "r">> }

SaveConversation ==
    /\ turn.pc = "idle"
    /\ \E filename \in SaveNames, written \in BOOLEAN :
          files' = save_conversation(bot, files, filename, Now, written).files
    /\ UNCHANGED <<bot, prompts_file, turn>>

LoadConversation ==
    /\ turn.pc = "idle"
    /\ \E filename \in LoadNames :
          LET r == load_conversation(bot, files, filename)
          IN /\ Len(r.self.full_conversation_history) <= MaxStoreLog + 1
             /\ bot' = r.self
    /\ UNCHANGED <<files, prompts_file, turn>>

\* the save of the interrupt handler of main_loop: save_conversation() when
\* the session has messages, no call otherwise
autosave(self, dir, written) ==
    IF self.conversation_history # <<>>
    THEN save_conversation(self, dir, None, Now, written)
    ELSE [files |-> dir, status |-> "none", path |-> None]

\* the interrupt that records the turn so far before it ends the loop
Interrupt_records_partial ==
    /\ turn.pc = "streaming"
    /\ \E written \in BOOLEAN :
          LET r == autosave(bot, files, written)
          IN /\ files' = r.files
             /\ turn' = [turn EXCEPT !.pc = "terminated",
                                     !.stream = "interrupted",
                                     !.autosave = r.status]
    /\ bot' = stream_record(bot, turn)
    /\ UNCHANGED prompts_file

\* KeyboardInterrupt while main_loop consumes the stream: the generator is
\* left where it is, the handler saves and the loop ends
Interrupt ==
    /\ turn.pc = "streaming"
    /\ \E written \in BOOLEAN :
          LET r == autosave(bot, files, written)
          IN /\ files' = r.files
             /\ turn' = [turn EXCEPT !.pc = "terminated",
                                     !.stream = "interrupted",
                                     !.autosave = r.status]
    /\ UNCHANGED <<bot, prompts_file>>

Next ==
    \/ TurnCall
    \/ TurnChunk
    \/ TurnRaise
    \/ TurnExhaust
    \/ TurnReturn
    \/ SwitchModel
    \/ SetSystemPrompt
    \/ StartNewChat

Spec == Init /\ [][Next]_vars

\* the session with its files, on shorter logs and fewer arguments
TurnCallStore == TurnCallOf(UserPrompts, MaxStoreLog)
SwitchModelStore == SwitchModelOf({N_gemini_pro, <<"z">>}, MaxStoreLog)
SetSystemPromptStore == SetSystemPromptOf({<<"direct">>})

NextStore ==
    \/ TurnCallStore
    \/ TurnChunk
    \/ TurnRaise
    \/ TurnExhaust
    \/ TurnReturn
    \/ SwitchModelStore
    \/ SetSystemPromptStore
    \/ StartNewChat
    \/ SaveConversation
    \/ LoadConversation

SpecStore == Init /\ [][NextStore]_vars

\* the session with its settings: the parameters and the prompt library
\* change between the chats, and the turns are all of one kind
TurnCallSettings == TurnCallOf({<<"h", "i">>}, MaxStoreLog + 1)
TurnChunkSettings == TurnChunkOf({<<"o", "k">>}, {Usage(3)})
SwitchModelSettings ==
    SwitchModelOf({N_gemini_pro, <<"2">>, <<"f", "l", "a", "s", "h">>, <<"z">>},
                  MaxStoreLog + 1)

NextSettings ==
    \/ TurnCallSettings
    \/ TurnChunkSettings
    \/ TurnRaise
    \/ TurnExhaust
    \/ TurnReturn
    \/ SwitchModelSettings
    \/ SetSystemPrompt
    \/ StartNewChat
    \/ SetLlmParam
    \/ ResetLlmParams
    \/ AddPrompt
    \/ RemovePrompt

SpecSettings == Init /\ [][NextSettings]_vars

\* the loop of main_loop with its interrupt, the turns all of one kind
TurnCallLoop == TurnCallOf({<<"h", "i">>}, MaxLog)
SwitchModelLoop == SwitchModelOf({N_gemini_pro, <<"z">>}, MaxLog)

NextLoop ==
    \/ TurnCallLoop
    \/ TurnChunkSettings
    \/ TurnRaise
    \/ TurnExhaust
    \/ TurnReturn
    \/ SwitchModelLoop
    \/ StartNewChat
    \/ Interrupt

SpecLoop == Init /\ [][NextLoop]_vars

\* the attribute main_loop reads before it builds the prompt text
HasModelTokenUsage(self) == "model_token_usage" \in DOMAIN self

\* main_loop as it starts: Chatbot() and the first round of while True
InitMain ==
    /\ \E models \in Catalogs, library \in PromptLibraries :
          /\ bot = Chatbot(models, library.prompts)
          /\ prompts_file = library.file
    /\ files = <<>>
    /\ turn = [IdleTurn EXCEPT !.pc = "top"]

\* the top of a round up to session.prompt: the read of the per-model
\* counter either gives the prompt text or raises into except Exception
LoopTop ==
    /\ turn.pc = "top"
    /\ turn.rounds < MaxRounds
    /\ turn' = IF HasModelTokenUsage(bot)
               THEN [turn EXCEPT !.pc = "idle"]
               ELSE [turn EXCEPT !.pc = "caught", !.rounds = @ + 1]
    /\ UNCHANGED <<bot, files, prompts_file>>

\* except Exception that ends the loop after its report
LoopReport_terminates ==
    /\ turn.pc = "caught"
    /\ turn' = [turn EXCEPT !.pc = "terminated", !.stream = "failed"]
    /\ UNCHANGED <<bot, files, prompts_file>>

\* except Exception: the failure is reported and the next round starts
LoopReport ==
    /\ turn.pc = "caught"
    /\ turn' = [turn EXCEPT !.pc = "top"]
    /\ UNCHANGED <<bot, files, prompts_file>>

\* KeyboardInterrupt inside the try of a round, outside a turn
InterruptRound ==
    /\ turn.pc = "top"
    /\ \E written \in BOOLEAN :
          LET r == autosave(bot, files, written)
          IN /\ files' = r.files
             /\ turn' = [turn EXCEPT !.pc = "terminated",
                                     !.stream = "interrupted",
                                     !.autosave = r.status]
    /\ UNCHANGED <<bot, prompts_file>>

NextMain ==
    \/ LoopTop
    \/ LoopReport
    \/ InterruptRound

SpecMain == InitMain /\ [][NextMain]_vars

\* a models_config.json with more close names than a ranked list holds
LargeCatalog ==
    << E_gpt120b,
       [name |-> <<"g", "e">>, litellm_string |-> <<"x/ge">>, provider |-> "X"],
       [name |-> <<"g", "e", "m", "m", "a">>, litellm_string |-> <<"x/gemma">>,
        provider |-> "X"],
       [name |-> <<"g", "e", "m", "s">>, litellm_string |-> <<"x/gems">>,
        provider |-> "X"],
       [name |-> <<"g", "e", "m">>, litellm_string |-> <<"x/gem">>,
        provider |-> "X"],
       E_gemini_pro,
       E_gemini_flash >>

\* the model selection alone, over the catalogs and the large one
InitFuzzy ==
    /\ \E models \in Catalogs \cup {LargeCatalog}, library \in PromptLibraries :
          /\ bot = Chatbot(models, library.prompts)
          /\ prompts_file = library.file
    /\ files = <<>>
    /\ turn = IdleTurn

SwitchModelFuzzy == SwitchModelOf(Identifiers, MaxStoreLog + 1)

NextFuzzy ==
    \/ SwitchModelFuzzy
    \/ StartNewChat

SpecFuzzy == InitFuzzy /\ [][NextFuzzy]_vars

\* turns after changes of the parameters, the prompt and the model
SetLlmParamRequest ==
    SetLlmParamOf({<<"max_tokens">>, <<"Temperature">>},
                  {<<"5">>, <<"0", ".", "9">>, <<"N", "o", "n", "e">>})
SwitchModelRequest == SwitchModelOf({N_gemini_pro}, MaxStoreLog + 1)

NextRequest ==
    \/ TurnCallLoop
    \/ TurnChunkSettings
    \/ TurnExhaust
    \/ TurnReturn
    \/ SetLlmParamRequest
    \/ SwitchModelRequest
    \/ SetSystemPromptStore

SpecRequest == Init /\ [][NextRequest]_vars

\* a models_config.json of an earlier run, with a model named gemini
N_gemini == <<"g", "e", "m", "i", "n", "i">>
EarlierCatalog ==
    << [name |-> N_gemini, litellm_string |-> <<"gemini/gemini">>,
        provider |-> "Google"] >>

StoredMessages ==
    << Message("user", <<"h", "i">>), Message("assistant", <<"o", "k">>) >>

\* the session of an earlier run: a model chosen, then one turn recorded
EarlierSession(models, identifier) ==
    LET chosen == switch_model(Chatbot(models, FilePrompts), identifier).self
    IN [chosen EXCEPT
          !.conversation_history = @ \o StoredMessages,
          !.full_conversation_history = @ \o StoredMessages]

\* conversations/ as an earlier run left it: foo.md saved by a session of
\* the first catalog, or by a session of the earlier catalog
StoredDirs ==
    { save_conversation(EarlierSession(run[1], run[2]), <<>>,
                        <<"f", "o", "o">>, Now, TRUE).files :
        run \in { <<<<E_gpt120b, E_gemini_flash, E_gemini_pro>>, N_gpt120b>>,
                  <<EarlierCatalog, N_gemini>> } }

\* a run that starts with a conversation of an earlier run in conversations/
InitStored ==
    /\ \E models \in Catalogs, library \in PromptLibraries :
          /\ bot = Chatbot(models, library.prompts)
          /\ prompts_file = library.file
    /\ files \in StoredDirs
    /\ turn = IdleTurn

NextStored ==
    \/ TurnCallSettings
    \/ TurnChunkSettings
    \/ TurnExhaust
    \/ TurnReturn
    \/ SwitchModelStore
    \/ SetSystemPromptStore
    \/ StartNewChat
    \/ SaveConversation
    \/ LoadConversation

SpecStored == InitStored /\ [][NextStored]_vars

\* the texts of the exceptions a provider raises: one or two of these
\* pieces, each a word the classification looks for or one it ignores
ErrorPieces ==
    { "Invalid", "API Key", "Authentication", "Rate Limit", "Timeout",
      "Connection", "Not Found", "404", "boom" }
ErrorTexts ==
    { <<p>> : p \in ErrorPieces }
    \cup { <<p, SP, q>> : p \in ErrorPieces, q \in ErrorPieces }

\* the completion call or the stream raises one of the error texts
TurnRaiseErrors ==
    /\ turn.pc = "streaming"
    /\ \E e \in ErrorTexts :
          turn' = [stream_except(turn, e) EXCEPT !.stream = "raised"]
    /\ UNCHANGED <<bot, files, prompts_file>>

NextErrors ==
    \/ TurnCallLoop
    \/ TurnChunkSettings
    \/ TurnRaiseErrors
    \/ TurnExhaust
    \/ TurnReturn

SpecErrors == Init /\ [][NextErrors]_vars

\* the turns alone, with deltas that differ, and a caller that may stop
StreamDeltas == { <<>>, <<"o">>, <<"k">> }
TurnChunkStream == TurnChunkOf(StreamDeltas, {Usage(3)})

\* the caller that stops recording the turn as far as it came
Abandon_records_partial ==
    /\ turn.pc = "streaming"
    /\ turn.chunk.content # <<>>
    /\ turn' = [turn EXCEPT !.pc = "done", !.stream = "abandoned"]
    /\ bot' = stream_record(stream_usage(bot, turn), turn)
    /\ UNCHANGED <<files, prompts_file>>

\* the caller stops iterating while the generator is suspended at the
\* yield of a content event: the generator is closed there, and GeneratorExit
\* is no Exception, so neither the except nor the lines after the loop run
Abandon ==
    /\ turn.pc = "streaming"
    /\ turn.chunk.content # <<>>
    /\ turn' = [turn EXCEPT !.pc = "done", !.stream = "abandoned"]
    /\ UNCHANGED <<bot, files, prompts_file>>

NextStream ==
    \/ TurnCallLoop
    \/ TurnChunkStream
    \/ TurnRaise
    \/ TurnExhaust
    \/ TurnReturn
    \/ Abandon

SpecStream == Init /\ [][NextStream]_vars

\* the sampling parameters alone, with every name and many raw values
NextParams ==
    \/ SetLlmParamAll
    \/ ResetLlmParams

SpecParams == Init /\ [][NextParams]_vars

\* the prompt library alone, with many aliases and failing saves
NextPrompts ==
    \/ AddPromptAll
    \/ RemovePromptAll

SpecPrompts == Init /\ [][NextPrompts]_vars


(***************************************************************************)
(* Properties.                                                             *)
(***************************************************************************)
\* a step that leaves the message list, the event log and the token counter
SessionSame ==
    /\ bot'.conversation_history = bot.conversation_history
    /\ bot'.full_conversation_history = bot.full_conversation_history
    /\ bot'.total_tokens_used = bot.total_tokens_used

\* a step that ends a turn by the exhaustion of its stream
Exhausted == turn.stream = "open" /\ turn'.stream = "exhausted"

TurnMessages ==
    <<Message("user", turn.user_prompt), Message("assistant", turn.response_text)>>

\* C1: from the call of a turn to the provider error that fails it, after any
\* number of deltas, no step changes the message list, the event log or the
\* token counter, and the failure adds one error event to the events emitted.
C1_FailedTurnLeavesSession ==
    [][(\/ turn.pc = "idle" /\ turn'.pc = "streaming"
        \/ turn.pc = "streaming" /\ turn'.stream # "exhausted")
       => /\ SessionSame
          /\ turn'.stream = "raised"
               => /\ turn'.pc = "done"
                  /\ Len(turn'.emitted) = Len(turn.emitted) + 1
                  /\ SubSeq(turn'.emitted, 1, Len(turn.emitted)) = turn.emitted
                  /\ turn'.emitted[Len(turn'.emitted)].type = "error"]_vars

\* a turn failed after a delta was emitted, in a session that has messages
C1_Witness ==
    /\ turn.stream = "raised"
    /\ Len(turn.emitted) >= 2
    /\ bot.conversation_history # <<>>
    /\ bot.total_tokens_used > 0

\* C2: in every reachable state the message list is the event log filtered
\* to the entries that carry a role.
C2_MessagesAreRoleEntries ==
    bot.conversation_history = RoleEntries(bot.full_conversation_history)

\* C3: saving a session and loading the file at once gives back the same
\* message list and the same active friendly name.
C3_SaveLoadRoundTrip ==
    (turn.pc = "idle" /\ bot.full_conversation_history # <<>>)
    => LET name == <<"f", "o", "o">>
           saved == save_conversation(bot, files, name, Now, TRUE)
           loaded == load_conversation(bot, saved.files, name)
       IN /\ loaded.status = "success"
          /\ loaded.self.conversation_history = bot.conversation_history
          /\ loaded.self.active_model_friendly = bot.active_model_friendly

\* C4: a turn whose stream is exhausted appends the user message and then the
\* assistant message with the accumulated text to the message list and to
\* the event log, and changes no earlier entry.
C4_ExhaustedTurnAppendsTwo ==
    [][Exhausted
       => /\ bot'.conversation_history
               = bot.conversation_history \o TurnMessages
          /\ bot'.full_conversation_history
               = bot.full_conversation_history \o TurnMessages]_vars

\* the per-model token counter: model_token_usage.get(name, 0)
ModelTokens(self, name) ==
    IF name \in DOMAIN self.model_token_usage
    THEN self.model_token_usage[name] ELSE 0

\* C5: when a stream is exhausted and its last chunk has a usage record, its
\* total_tokens is added to the session counter and to the counter of the
\* active model's friendly name.
C5_UsageCounted ==
    [][(Exhausted /\ turn.chunks > 0 /\ turn.chunk.usage # None)
       => /\ bot'.total_tokens_used
               = bot.total_tokens_used + turn.chunk.usage[2]
          /\ HasModelTokenUsage(bot')
          /\ ModelTokens(bot', bot.active_model_friendly)
               = (IF HasModelTokenUsage(bot)
                  THEN ModelTokens(bot, bot.active_model_friendly) ELSE 0)
                 + turn.chunk.usage[2]]_vars

\* C6: a turn called with no active model ends at once with the one error
\* event "No model is currently active.", without a call of the completion
\* capability, and changes nothing of the session; nothing more is emitted.
C6_NoActiveModelFailsFast ==
    [][/\ (turn.pc = "idle" /\ turn'.pc # "idle"
           /\ bot.active_model_name = None)
          => /\ turn'.pc = "done"
             /\ turn'.stream = "none"
             /\ turn'.emitted = <<ErrorEvent(<<"No model is currently active.">>)>>
             /\ bot' = bot
       /\ (turn.pc = "done" /\ turn.stream = "none")
          => /\ turn'.pc = "idle" \/ turn' = turn
             /\ bot' = bot]_vars

\* a turn has failed fast
C6_Witness ==
    /\ turn.pc = "done"
    /\ turn.stream = "none"
    /\ bot.active_model_name = None
    /\ Len(turn.emitted) = 1

\* C7: set_system_prompt leaves an empty message list, an empty event log
\* and a token counter of zero, and the system prompt is the text of the
\* alias when the argument is an alias of the library, the argument otherwise.
C7_SystemPromptStartsNewChat ==
    [][\A arg \in PromptArgs :
          (turn.pc = "idle" /\ bot' = set_system_prompt(bot, arg))
          => /\ bot'.conversation_history = <<>>
             /\ bot'.full_conversation_history = <<>>
             /\ bot'.total_tokens_used = 0
             /\ bot'.system_prompt =
                  (IF \E i \in 1..Len(bot.prompts) : bot.prompts[i].alias = arg
                   THEN get_prompt_text(bot, arg) ELSE arg)]_vars

\* the system prompt was set from an alias added to the library
C7_Witness ==
    /\ bot.system_prompt = <<"Generate five startup ideas">>
    /\ bot.conversation_history = <<>>
    /\ bot.full_conversation_history = <<>>
    /\ bot.total_tokens_used = 0

\* C8: start_new_chat empties the message list and the event log, zeroes the
\* token counter and leaves the active model, the system prompt, the
\* sampling parameters and the prompt library as they were.
C8_NewChatFrame ==
    [][StartNewChat
       => /\ bot'.conversation_history = <<>>
          /\ bot'.full_conversation_history = <<>>
          /\ bot'.total_tokens_used = 0
          /\ bot'.active_model_name = bot.active_model_name
          /\ bot'.active_model_friendly = bot.active_model_friendly
          /\ bot'.system_prompt = bot.system_prompt
          /\ bot'.llm_params = bot.llm_params
          /\ bot'.prompts = bot.prompts
          /\ prompts_file' = prompts_file]_vars

\* a new chat was started after a model switch, with a parameter and the
\* prompt library changed
C8_Witness ==
    /\ bot.full_conversation_history = <<>>
    /\ bot.active_model_friendly = N_gemini_pro
    /\ bot.system_prompt = <<"You are a helpful assistant.">>
    /\ bot.llm_params # default_llm_params
    /\ bot.prompts \notin {FilePrompts, FallbackPrompts}

\* C9: a switch_model call that succeeds makes a catalog entry the active
\* one (friendly name and connection string), appends one model_switch
\* event naming it, and changes nothing else.
C9_SwitchFrame ==
    \A identifier \in Identifiers :
        LET r == switch_model(bot, identifier)
            name == r.self.active_model_friendly
        IN r.status = "success"
           => /\ HasKey(bot.models_config, name)
              /\ r.self.active_model_name =
                   Entry(bot.models_config, name).litellm_string
              /\ r.self = [bot EXCEPT
                             !.active_model_friendly = name,
                             !.active_model_name = r.self.active_model_name,
                             !.full_conversation_history =
                                 Append(@, ModelSwitchEvent(name))]

\* a model was switched in a session with messages, tokens and a parameter set
C9_Witness ==
    /\ bot.full_conversation_history # <<>>
    /\ bot.full_conversation_history[Len(bot.full_conversation_history)]
         = ModelSwitchEvent(bot.active_model_friendly)
    /\ bot.conversation_history # <<>>
    /\ bot.total_tokens_used > 0
    /\ bot.llm_params # default_llm_params

\* C10: for every key of the catalog, switch_model of the key takes the
\* direct match and selects the entry of that key.
C10_ExactKeyIsDirect ==
    \A i \in 1..Len(bot.models_config) :
        LET n == bot.models_config[i].name
            r == switch_model(bot, n)
        IN /\ r.status = "success"
           /\ r.path = "direct"
           /\ r.self.active_model_friendly = n
           /\ r.self.active_model_name = bot.models_config[i].litellm_string

\* the model whose key is the number 1, the third of its catalog, is active
C10_Witness ==
    /\ bot.active_model_friendly = N_one
    /\ bot.active_model_name = E_one.litellm_string
    /\ bot.models_config[3] = E_one

\* switch_model(str(i)) selects what switch_model of the i-th key selects
NumberIsNthKey(i) ==
    LET byNumber == switch_model(bot, FormatInt(i))
        byKey == switch_model(bot, Keys(bot.models_config)[i])
    IN /\ byNumber.status = "success"
       /\ byNumber.self = byKey.self
       /\ byNumber.self.active_model_friendly = Keys(bot.models_config)[i]

\* switch_model(str(n)) finds nothing and changes nothing
NumberNotFound(n) ==
    LET r == switch_model(bot, FormatInt(n))
    IN r.status = "error" /\ r.self = bot

\* C11 as stated: for every catalog and every i in 1..count,
\* switch_model(str(i)) selects the entry of the i-th key, and
\* switch_model("0") and switch_model(str(count + 1)) find nothing and
\* change nothing.
C11_NumberIsNthKey_AnyCatalog ==
    /\ \A i \in 1..Len(bot.models_config) : NumberIsNthKey(i)
    /\ NumberNotFound(0)
    /\ NumberNotFound(Len(bot.models_config) + 1)

\* C11: for every catalog and every number that is not itself a key of the
\* catalog, switch_model(str(i)) with 1 <= i <= count selects the entry of
\* the i-th key in insertion order, and switch_model("0") and
\* switch_model(str(count + 1)) find nothing and change nothing.
C11_NumberIsNthKey ==
    /\ \A i \in 1..Len(bot.models_config) :
          ~HasKey(bot.models_config, FormatInt(i)) => NumberIsNthKey(i)
    /\ \A n \in {0, Len(bot.models_config) + 1} :
          ~HasKey(bot.models_config, FormatInt(n)) => NumberNotFound(n)

\* the second entry of a catalog with a key that is a number was selected,
\* in a session with messages
C11_Witness ==
    /\ bot.models_config[3] = E_one
    /\ bot.active_model_friendly = Keys(bot.models_config)[2]
    /\ bot.conversation_history # <<>>
    /\ bot.full_conversation_history[Len(bot.full_conversation_history)]
         = ModelSwitchEvent(Keys(bot.models_config)[2])

\* the words that reset a parameter, in lower case
ResetWords == { <<"n", "o", "n", "e">>, <<"d", "e", "f", "a", "u", "l", "t">> }

\* a number below the least or above the greatest value of the parameter
OutOfRange(v, name) ==
    /\ v \notin {ParseError, NaN}
    /\ \/ validators[name].min # None /\ Below(v, validators[name].min[2])
       \/ validators[name].max # None /\ Above(v, validators[name].max[2])

\* what the call set_llm_param(param_name, value_str) is to do in a session
ParamCallAsStated(param_name, value_str) ==
    LET r == set_llm_param(bot, param_name, value_str)
        name == Lower(param_name)[1]
    IN IF name \notin DOMAIN default_llm_params
       THEN r.status = "error" /\ r.self = bot
       ELSE IF Lower(value_str) \in ResetWords
       THEN /\ r.status = "success"
            /\ r.self.llm_params[name] = default_llm_params[name]
            /\ \A other \in DOMAIN default_llm_params \ {name} :
                  r.self.llm_params[other] = bot.llm_params[other]
            /\ r.self = [bot EXCEPT !.llm_params = r.self.llm_params]
       ELSE LET v == ParseNumber(value_str, validators[name].isFloat)
            IN (v = ParseError \/ OutOfRange(v, name))
               => r.status = "error" /\ r.self = bot

InRange(v, name) ==
    /\ v # None
    /\ v[1] = "num"
    /\ validators[name].isFloat \/ v[2] % 1000 = 0
    /\ validators[name].min # None => v[2] >= validators[name].min[2]
    /\ validators[name].max # None => v[2] <= validators[name].max[2]

\* C13: after any sequence of set_llm_param and reset_llm_params calls every
\* stored parameter is its default or a number of its type inside its closed
\* range.
C13_ParamsInRange ==
    \A name \in DOMAIN default_llm_params :
        \/ bot.llm_params[name] = default_llm_params[name]
        \/ InRange(bot.llm_params[name], name)

\* a library as the mapping it is: the alias and text pairs
AsMapping(prompts) ==
    {<<prompts[i].alias, prompts[i].text>> : i \in 1..Len(prompts)}

HasWhitespace(alias) == \E i \in 1..Len(alias) : alias[i] \in Whitespace

\* C14: add_prompt of an alias of the library, with a text, returns a warning
\* and overwrites: the library maps the alias to the new text and that
\* library is the one saved.
C14_AddExistingOverwrites ==
    \A alias \in AllAliases, text \in AllPromptTexts :
        (HasPrompt(bot.prompts, alias) /\ text # <<>>)
        => LET r == add_prompt(bot, prompts_file, alias, text, TRUE)
           IN /\ r.status = "warning"
              /\ get_prompt_text(r.self, alias) = text
              /\ AsMapping(r.file) = AsMapping(r.self.prompts)

\* C15: add_prompt with an empty alias, an empty text or an alias with a
\* whitespace character is an error and changes neither the library nor
\* the saved file.
C15_InvalidAddFails ==
    \A alias \in AllAliases, text \in AllPromptTexts, saved \in BOOLEAN :
        (alias = <<>> \/ text = <<>> \/ HasWhitespace(alias))
        => LET r == add_prompt(bot, prompts_file, alias, text, saved)
           IN r.status = "error" /\ r.self = bot /\ r.file = prompts_file

\* a call that is not saved is no success and gives back the same mapping,
\* the same file and the same session besides
NotSavedKeeps(r) ==
    /\ r.status # "success"
    /\ r.why \in {"saved", "removed", "not saved"} => r.status = "error"
    /\ AsMapping(r.self.prompts) = AsMapping(bot.prompts)
    /\ r.self = [bot EXCEPT !.prompts = r.self.prompts]
    /\ r.file = prompts_file

\* C16: an add_prompt or remove_prompt whose save fails is an error and
\* leaves the library with the same aliases and texts; so in every state the
\* library maps as the library last saved does, or as the library loaded at
\* the start when none was saved yet.
C16_LibraryIsLastSaved ==
    /\ \A alias \in AllAliases :
          /\ NotSavedKeeps(remove_prompt(bot, prompts_file, alias, FALSE))
          /\ \A text \in AllPromptTexts :
                NotSavedKeeps(add_prompt(bot, prompts_file, alias, text, FALSE))
    /\ \/ AsMapping(bot.prompts) = AsMapping(prompts_file)
       \/ prompts_file = NoPromptsFile /\ bot.prompts = FallbackPrompts

\* a remove_prompt was undone: the library has the saved aliases and texts
\* in another order
C16_Witness ==
    /\ bot.prompts # prompts_file
    /\ Len(prompts_file) >= 2
    /\ AsMapping(bot.prompts) = AsMapping(prompts_file)

\* remove_prompt(alias) on a protected alias of the library and on an alias
\* that is not in the library
RemoveRefused(alias, saved) ==
    LET r == remove_prompt(bot, prompts_file, alias, saved)
    IN /\ ~HasPrompt(bot.prompts, alias)
          => r.why = "not found" /\ r.status = "error"
             /\ r.self = bot /\ r.file = prompts_file
       /\ (HasPrompt(bot.prompts, alias) /\ alias \in ProtectedAliases)
          => r.why = "protected" /\ r.status = "error"
             /\ r.self = bot /\ r.file = prompts_file

\* C17: remove_prompt of a protected alias of the library fails as protected
\* and of an alias that is not in the library as not found, both changing
\* nothing; and no step takes a protected alias out of the library.
C17_ProtectedStay ==
    [][/\ \A alias \in AllAliases \cup ProtectedAliases, saved \in BOOLEAN :
             RemoveRefused(alias, saved)
       /\ \A alias \in ProtectedAliases :
             HasPrompt(bot.prompts, alias)
             => get_prompt_text(bot', alias) # None]_vars

\* the three protected aliases are in a library to which two aliases were
\* added and saved
C17_Witness ==
    /\ \A alias \in ProtectedAliases : HasPrompt(bot.prompts, alias)
    /\ Len(bot.prompts) = 5
    /\ prompts_file = bot.prompts

\* C18: save_conversation on a session with no message recorded, model
\* switches or not, returns the warning of the empty conversation and writes
\* no file.
C18_NothingToSave ==
    (turn.pc = "idle" /\ bot.conversation_history = <<>>)
    => \A filename \in SaveNames \cup {None}, written \in BOOLEAN :
          LET r == save_conversation(bot, files, filename, Now, written)
          IN r.status = "warning" /\ r.files = files

\* C19: load_conversation of a name with no file is the error of the file
\* not found and leaves the whole session as it is.
C19_MissingFileLeavesSession ==
    \A filename \in LoadNames :
        WithExt(filename) \notin DOMAIN files
        => load_conversation(bot, files, filename)
             = [self |-> bot, status |-> "error", why |-> "not found",
                count |-> 0]

\* a session with messages, tokens and a model chosen, one file saved and
\* the file bar.md missing
C19_Witness ==
    /\ turn.pc = "idle"
    /\ bot.conversation_history # <<>>
    /\ bot.total_tokens_used > 0
    /\ bot.active_model_friendly = N_gemini_pro
    /\ DOMAIN files # {}
    /\ WithExt(<<"b", "a", "r">>) \notin DOMAIN files

\* a step in which the interrupt arrives while the stream is consumed
Interrupted == turn.pc = "streaming" /\ turn'.stream = "interrupted"

\* the step consumes no delta, records nothing of the turn and ends the loop
InterruptEnds ==
    /\ turn'.pc = "terminated"
    /\ turn'.emitted = turn.emitted
    /\ turn'.response_text = turn.response_text
    /\ turn'.chunks = turn.chunks
    /\ bot' = bot

C21_LoopEndsOnlyOnRequest ==
    [][/\ turn'.pc = "terminated"
          => turn'.stream \in {"quit", "eof", "interrupted"}
       /\ turn.pc = "caught"
          => turn'.pc = "top" /\ turn'.rounds = turn.rounds /\ bot' = bot
       /\ turn.pc # "terminated"]_vars

\* the loop is at the top of a round after two rounds that failed
C21_Witness ==
    /\ turn.pc = "top"
    /\ turn.rounds = 2

\* C22: every round of the loop reaches the prompt and waits there for the
\* input before anything else is handled.
C22_EveryRoundReachesPrompt ==
    [][turn.pc = "top"
       => turn'.pc = "idle" \/ turn'.stream = "interrupted"]_vars

RECURSIVE ContentOf(_)
\* the contents of the content events of a turn, one after the other
ContentOf(events) ==
    IF events = <<>> THEN <<>>
    ELSE IF events[1].type = "content"
         THEN events[1].content \o ContentOf(Tail(events))
         ELSE ContentOf(Tail(events))

\* C23: a delta that arrives with content adds one content event with that
\* content after the events emitted so far, a delta without content adds
\* none, and the assistant message recorded when the stream is exhausted
\* carries the contents of the turn's content events in their order.
C23_EventsInArrivalOrder ==
    [][/\ (turn.pc = "streaming" /\ turn'.chunks = turn.chunks + 1)
          => turn'.emitted =
               IF turn'.chunk.content # <<>>
               THEN Append(turn.emitted, ContentEvent(turn'.chunk.content))
               ELSE turn.emitted
       /\ (Exhausted /\ turn.chunks > 0)
          => bot'.conversation_history[Len(bot'.conversation_history)]
               = Message("assistant", ContentOf(turn.emitted))]_vars

\* a turn of two different deltas was recorded
C23_Witness ==
    /\ turn.stream = "exhausted"
    /\ turn.emitted = <<ContentEvent(<<"k">>), ContentEvent(<<"o">>)>>
    /\ bot.conversation_history[Len(bot.conversation_history)].content
         = <<"k", "o">>

\* C30: a step of a turn changes the message list, the event log or the
\* token counter only when it is the exhaustion of the stream; a caller that
\* stops after content events leaves the three as they were before the turn.
C30_RecordedOnlyOnExhaustion ==
    [][/\ (turn.pc = "streaming" /\ ~Exhausted) => SessionSame
       /\ (turn.stream = "open" /\ turn'.stream = "abandoned")
          => /\ SessionSame
             /\ turn.emitted # <<>>
             /\ \A i \in 1..Len(turn.emitted) :
                   turn.emitted[i].type = "content"]_vars

\* the caller stopped after two content events in a session with messages
C30_Witness ==
    /\ turn.stream = "abandoned"
    /\ Len(turn.emitted) = 2
    /\ bot.conversation_history # <<>>
    /\ bot.total_tokens_used > 0

\* the score of a key as the statement gives it is above the threshold: the
\* similarity ratio, plus the boost when the lower-cased identifier is inside
\* the lower-cased key
AboveThreshold(identifier, key) ==
    LET base == Ratio(Lower(identifier), Lower(key))
        inside == Contains(Lower(key), Lower(identifier))
    IN IF inside
       THEN 10 * base.num + SubstringBoost * base.den > MinScore * base.den
       ELSE 10 * base.num > MinScore * base.den

\* the positions of the keys whose score is above the threshold
Kept(identifier) ==
    { i \in 1..Len(bot.models_config) :
        AboveThreshold(identifier, bot.models_config[i].name) }

\* what switch_model does for an identifier that is no key and no number
FuzzyAsStated(identifier) ==
    LET r == switch_model(bot, identifier)
        kept == Kept(identifier)
        n == IF Cardinality(kept) < TopMatches THEN Cardinality(kept)
             ELSE TopMatches
    IN IF kept = {}
       THEN r.status = "error" /\ r.self = bot
       ELSE IF Cardinality(kept) = 1
       THEN LET key == bot.models_config[CHOOSE i \in kept : TRUE]
            IN /\ r.status = "success"
               /\ r.self.active_model_friendly = key.name
               /\ r.self.active_model_name = key.litellm_string
       ELSE /\ r.status = "multiple"
            /\ r.self = bot
            /\ Len(r.matches) = n
            /\ \A i \in 1..n :
                  /\ \E k \in kept :
                        r.matches[i] =
                            Score(Lower(identifier), bot.models_config[k].name)
                  /\ \A j \in 1..n :
                        /\ i < j => ~Greater(r.matches[j], r.matches[i])
                        /\ i # j => r.matches[i].name # r.matches[j].name
                  /\ \A k \in kept :
                        (\A j \in 1..n :
                            r.matches[j].name # bot.models_config[k].name)
                        => ~Greater(Score(Lower(identifier),
                                          bot.models_config[k].name),
                                    r.matches[i])

\* C24: for an identifier that is no key and not made of digits, the keys
\* whose adjusted score is above 0.4 are ranked by descending score and cut
\* to the first five; none of them gives NotFound, one selects that model,
\* two or more give Ambiguous with the ranked list and change nothing.
C24_FuzzySelection ==
    \A identifier \in Identifiers :
        (~IsDigit(identifier) /\ ~HasKey(bot.models_config, identifier))
        => FuzzyAsStated(identifier)

\* a model was selected by its one close name in the large catalog, where
\* another identifier has more close names than the list holds
C24_Witness ==
    /\ bot.models_config = LargeCatalog
    /\ bot.active_model_friendly = N_gemini_flash
    /\ Cardinality(Kept(<<"G", "E", "M">>)) > TopMatches
    /\ Len(switch_model(bot, <<"G", "E", "M">>).matches) = TopMatches
    /\ Kept(<<"z">>) = {}

\* C25: the request of a turn has the active connection string as its
\* model, the system prompt message, the whole message list and the new user
\* message as its messages, and as its parameters the stored parameters
\* whose value is set, each with its stored value, all as they are at the
\* call.
C25_RequestFromState ==
    [][(turn.pc = "idle" /\ turn'.pc = "streaming")
       => LET request == turn'.request
              n == Len(bot.conversation_history)
          IN /\ request.model = bot.active_model_name
             /\ Len(request.messages) = n + 2
             /\ request.messages[1]
                  = [role |-> "system", content |-> bot.system_prompt]
             /\ SubSeq(request.messages, 2, n + 1) = bot.conversation_history
             /\ request.messages[n + 2]
                  = [role |-> "user", content |-> turn'.user_prompt]
             /\ \A k \in DOMAIN bot.llm_params :
                   IF bot.llm_params[k] = None
                   THEN k \notin DOMAIN request.params
                   ELSE /\ k \in DOMAIN request.params
                        /\ request.params[k] = bot.llm_params[k]
             /\ DOMAIN request.params \subseteq DOMAIN bot.llm_params]_vars

\* a turn was called with messages recorded, max_tokens set, top_p unset,
\* another prompt and another model than the initial ones
C25_Witness ==
    /\ turn.pc = "streaming"
    /\ Len(turn.request.messages) = 4
    /\ turn.request.model = E_gemini_pro.litellm_string
    /\ turn.request.messages[1].content
         = <<"You are an expert-level logical thinker.">>
    /\ DOMAIN turn.request.params
         = {"temperature", "max_tokens", "presence_penalty", "frequency_penalty"}
    /\ turn.request.params.max_tokens = Num(5000)
    /\ turn.request.params.temperature = Num(900)

\* the model name of the header of a file's text
HeaderModel(text) ==
    ParseHeader(HeaderLines(ReadLines(text)),
                [prompt |-> <<>>, has_prompt |-> FALSE, model |-> <<>>]).model

\* the load of a file whose header names a model that selects none
LoadUnresolved(filename) ==
    LET name == HeaderModel(files[WithExt(filename)])
        r == load_conversation(bot, files, filename)
    IN (name # <<>> /\ switch_model(bot, name).status \in {"error", "multiple"})
       => /\ r.status = "success"
          /\ r.self.active_model_friendly = bot.active_model_friendly
          /\ r.self.active_model_name = bot.active_model_name
          /\ r.self.conversation_history = StoredMessages
          /\ r.self.conversation_history
               = RoleEntries(r.self.full_conversation_history)
          /\ r.count = Len(r.self.conversation_history)

\* C26: the load of a file whose header names a model that is not found or
\* is ambiguous in the catalog succeeds, leaves the active model as it was,
\* loads the messages of the body, and reports the number of messages of
\* the rebuilt message list.
C26_UnresolvedHeaderKeepsModel ==
    \A filename \in LoadNames :
        WithExt(filename) \in DOMAIN files => LoadUnresolved(filename)

\* a session that keeps its model after the load of a file whose header
\* names the model gemini, which is ambiguous in the catalog
C26_Witness ==
    /\ bot.active_model_friendly = N_gpt120b
    /\ bot.full_conversation_history
         = <<ModelSwitchEvent(N_gemini)>> \o StoredMessages
    /\ bot.conversation_history = StoredMessages

\* the rules of the classification in their order: the words looked for in
\* the lower-cased text, and the class
ErrorRules ==
    << [words |-> {"api key", "authentication"},
        class |-> <<"API key is missing or invalid. Check your .env file.">>],
       [words |-> {"rate limit"},
        class |-> <<"Rate limit exceeded. Please wait a moment and try again.">>],
       [words |-> {"timeout", "connection"},
        class |-> <<"Connection timeout. Check your internet connection.">>],
       [words |-> {"not found", "404"},
        class |-> <<"Model not found. The model may have been deprecated.">>] >>

\* the rules a text matches
MatchingRules(text) ==
    { i \in 1..Len(ErrorRules) :
        \E k \in 1..Len(text) : LowerSym(text[k]) \in ErrorRules[i].words }

\* the class of a text: that of the first rule it matches, or the text
ErrorClass(text) ==
    IF MatchingRules(text) = {} THEN text
    ELSE ErrorRules[CHOOSE i \in MatchingRules(text) :
                        \A j \in MatchingRules(text) : i <= j].class

\* C27: the error event of a failed turn carries the class of the first rule
\* that matches the lower-cased text of the exception, or the text itself
\* when none matches; it is one class, and it is the same for the same text.
C27_FirstMatchingRule ==
    (turn.pc = "done" /\ turn.error # None)
    => /\ turn.emitted[Len(turn.emitted)] = ErrorEvent(ErrorClass(turn.error))
       /\ turn.emitted[Len(turn.emitted)] = ErrorEvent(_format_error(turn.error))
       /\ \A i \in 1..Len(turn.emitted) - 1 : turn.emitted[i].type = "content"

\* a turn failed with a text that matches the fourth rule and then the
\* second: the class is the one of the second rule
C27_Witness ==
    /\ turn.stream = "raised"
    /\ turn.error = <<"404", SP, "Rate Limit">>
    /\ MatchingRules(turn.error) = {2, 4}
    /\ turn.emitted[Len(turn.emitted)].content = ErrorRules[2].class

\* the active model of a session is unset, or it is an entry of the catalog
ActiveConsistent(self) ==
    \/ self.active_model_name = None /\ self.active_model_friendly = None
    \/ /\ self.active_model_name # None
       /\ HasKey(self.models_config, self.active_model_friendly)
       /\ self.active_model_name
            = Entry(self.models_config, self.active_model_friendly).litellm_string

\* C28: before and after every step the active connection string and the
\* active friendly name are both unset, or the friendly name is a key of the
\* catalog and the connection string is the one of its entry; and no step
\* takes a session that has an active model to one that has none.
C28_ActiveModelConsistent ==
    [][/\ ActiveConsistent(bot)
       /\ ActiveConsistent(bot')
       /\ bot'.models_config = bot.models_config
       /\ bot.active_model_name # None => bot'.active_model_name # None]_vars

\* a session of the catalog without the default model: a model was
\* activated, and it is still active after the load of a file whose header
\* names a model that is not in the catalog
C28_Witness ==
    /\ ~HasKey(bot.models_config, N_gpt120b)
    /\ bot.active_model_friendly = N_gemini_pro
    /\ bot.full_conversation_history
         = <<ModelSwitchEvent(N_gpt120b)>> \o StoredMessages

\* C29: a switch_model that ends with the error or with several matches
\* returns the session as it was: the active model, the event log, the
\* message list and the token counter are unchanged.
C29_FailedSwitchChangesNothing ==
    \A identifier \in Identifiers :
        LET r == switch_model(bot, identifier)
        IN r.status \in {"error", "multiple"}
           => /\ r.self.active_model_name = bot.active_model_name
              /\ r.self.active_model_friendly = bot.active_model_friendly
              /\ r.self.full_conversation_history = bot.full_conversation_history
              /\ r.self.conversation_history = bot.conversation_history
              /\ r.self.total_tokens_used = bot.total_tokens_used
              /\ r.self = bot

\* a session with messages, tokens and a switch in its log, in which an
\* unknown name, a number out of range and a name close to two keys fail
C29_Witness ==
    /\ bot.conversation_history # <<>>
    /\ bot.total_tokens_used > 0
    /\ Len(bot.full_conversation_history) > Len(bot.conversation_history)
    /\ switch_model(bot, <<"z">>).status = "error"
    /\ switch_model(bot, <<"z">>).path = "fuzzy"
    /\ switch_model(bot, <<"0">>).status = "error"
    /\ switch_model(bot, <<"0">>).path = "number"
    /\ switch_model(bot, <<"G", "E", "M">>).status = "multiple"

=============================================================================
